---- MODULE Spec2Model ----
(***************************************************************************)
(* Model of app.py: the data pipeline (load_data), the session-scoped      *)
(* filter selection, and one script run per user interaction (filtering,   *)
(* KPI computation, empty-result handling).                                *)
(*                                                                         *)
(* Time is counted in units of 1/UnitsPerDay of a day from the first       *)
(* instant of the first modelled year; a year has DaysPerYear days.        *)
(***************************************************************************)
EXTENDS Integers, Sequences, FiniteSets, TLC

VARIABLES files, raw, cache, session, view, event

vars == <<files, raw, cache, session, view, event>>

---------------------------------------------------------------------------
(* Bounds of the model                                                     *)

MaxTs == 5
UnitsPerDay == 2
DaysPerYear == 2
MaxPerturb == 1
MaxFaulty == 2

---------------------------------------------------------------------------
(* Values                                                                  *)

\* A missing value (NaN / NaT) is the empty tuple, a present value v is <<v>>.
NaT == <<>>

isna(v) == v = <<>>

\* A raw CSV cell of a timestamp column: text that denotes an instant, text
\* that denotes none, or an empty cell.
Cell(t) == [kind |-> "datetime", val |-> t]

GarbageCell == [kind |-> "garbage", val |-> 0]

EmptyCell == [kind |-> "empty", val |-> 0]

\* pd.to_datetime(..., errors='coerce'): unparseable values become NaT.
to_datetime(c) == IF c.kind = "datetime" THEN <<c.val>> ELSE NaT

\* (a - b).dt.days: the day component of a Timedelta is floor(delta / 1 day);
\* NaT if either operand is NaT.
days_between(a, b) ==
    IF isna(a) \/ isna(b) THEN NaT ELSE <<(a[1] - b[1]) \div UnitsPerDay>>

\* Timestamp.date(): the calendar day an instant falls on.
date(t) == t \div UnitsPerDay

\* .dt.year: the calendar year, NaN for NaT.
year(ts) ==
    IF isna(ts) THEN "nan" ELSE ToString(2016 + (date(ts[1]) \div DaysPerYear))

---------------------------------------------------------------------------
(* The nine input files, in the order load_data reads them                 *)

FileOrder ==
    << "customers", "geolocation", "orders", "order_items", "products",
       "order_payments", "order_reviews", "sellers", "category_translation" >>

FileNames == {FileOrder[i] : i \in 1..Len(FileOrder)}

\* The outcome of the nine pd.read_csv calls: the first file that cannot be
\* read raises, FileNotFoundError if absent, a parser error if malformed.
read_csv_all(fs) ==
    LET bad == {i \in 1..Len(FileOrder) : fs[FileOrder[i]] # "ok"}
    IN  IF bad = {} THEN "ok"
        ELSE LET first == CHOOSE i \in bad : \A j \in bad : i <= j
             IN  IF fs[FileOrder[first]] = "missing"
                 THEN "FileNotFoundError" ELSE "ParserError"

---------------------------------------------------------------------------
(* load_data                                                               *)

\* Mutant: a lookup that keeps only the first matching right row.
MatchRows_first(l, right, on) ==
    LET m == SelectSeq(right, LAMBDA r : r[on] = l[on])
    IN  IF m = <<>> THEN <<>> ELSE <<l @@ m[1]>>

MatchRows(l, right, on) ==
    LET m == SelectSeq(right, LAMBDA r : r[on] = l[on])
    IN  [j \in 1..Len(m) |-> l @@ m[j]]

\* DataFrame.merge(right, on=key): inner join, left row order preserved,
\* one output row per matching pair.
RECURSIVE merge(_, _, _)
merge(left, right, on) ==
    IF left = <<>> THEN <<>>
    ELSE MatchRows(Head(left), right, on) \o merge(Tail(left), right, on)

merge_all(r) ==
    LET d1 == merge(r.orders, r.customers, "customer_id")
        d2 == merge(d1, r.order_reviews, "order_id")
        d3 == merge(d2, r.order_payments, "order_id")
        d4 == merge(d3, r.order_items, "order_id")
        d5 == merge(d4, r.products, "product_id")
        d6 == merge(d5, r.sellers, "seller_id")
    IN  merge(d6, r.category_translation, "product_category_name")

timestamp_cols ==
    << "order_purchase_timestamp", "order_approved_at",
       "order_delivered_carrier_date", "order_delivered_customer_date",
       "order_estimated_delivery_date", "shipping_limit_date" >>

parse_timestamps(row) ==
    [c \in DOMAIN row |->
        IF \E i \in 1..Len(timestamp_cols) : timestamp_cols[i] = c
        THEN to_datetime(row[c]) ELSE row[c]]

\* Mutant: a delivery on the estimated day counts as late.
classify_delivery_strict(delta) ==
    IF isna(delta) THEN "Undefined"
    ELSE IF delta[1] > 0 THEN "On Time / Early"
    ELSE "Late"

classify_delivery(delta) ==
    IF isna(delta) THEN "Undefined"
    ELSE IF delta[1] >= 0 THEN "On Time / Early"
    ELSE "Late"

derive(row) ==
    LET delta == days_between(row.order_estimated_delivery_date,
                              row.order_delivered_customer_date)
    IN  row @@
        [ delivery_time |-> days_between(row.order_delivered_customer_date,
                                         row.order_purchase_timestamp),
          delivery_delta |-> delta,
          purchase_year |-> year(row.order_purchase_timestamp),
          delivery_status |-> classify_delivery(delta) ]

\* Mutant: dropna without subset, a NaT in any timestamp column drops the row.
dropna_any(df) ==
    SelectSeq(df, LAMBDA r :
        \A i \in 1..Len(timestamp_cols) : ~isna(r[timestamp_cols[i]]))

dropna(df) == SelectSeq(df, LAMBDA r : ~isna(r.order_purchase_timestamp))

\* The table load_data returns when all nine files were read.
load_data(r) ==
    LET merged == merge_all(r)
        parsed == [i \in 1..Len(merged) |-> parse_timestamps(merged[i])]
        derived == [i \in 1..Len(parsed) |-> derive(parsed[i])]
    IN  dropna(derived)

---------------------------------------------------------------------------
(* Session state and the sidebar widgets                                   *)

AllYears == "All Years"

AllStates == "All States"

AllCategories == "All Categories"

purchase_dates(df) == {date(df[i].order_purchase_timestamp[1]) : i \in 1..Len(df)}

\* df['order_purchase_timestamp'].min().date()
min_date(df) == CHOOSE d \in purchase_dates(df) : \A e \in purchase_dates(df) : d <= e

\* df['order_purchase_timestamp'].max().date()
max_date(df) == CHOOSE d \in purchase_dates(df) : \A e \in purchase_dates(df) : d >= e

all_years(df) == {df[i].purchase_year : i \in 1..Len(df)}

all_states(df) == {df[i].customer_state : i \in 1..Len(df)}

all_categories(df) == {df[i].product_category_name_english : i \in 1..Len(df)}

setdefault(ss, key, val) == IF key \in DOMAIN ss THEN ss ELSE ss @@ (key :> val)

\* Each key is set only if absent.  On an empty table min() is NaT and
\* NaT.date() raises after selected_year has been stored.
initialize_session_state(ss, df) ==
    LET s1 == setdefault(ss, "selected_year", AllYears)
    IN  IF "date_range" \notin DOMAIN s1 /\ df = <<>>
        THEN [ok |-> FALSE, session |-> s1]
        ELSE LET s2 == IF "date_range" \in DOMAIN s1 THEN s1
                       ELSE s1 @@ ("date_range" :> <<min_date(df), max_date(df)>>)
                 s3 == setdefault(s2, "selected_state", AllStates)
                 s4 == setdefault(s3, "selected_category", AllCategories)
             IN  [ok |-> TRUE, session |-> s4]

\* Mutant: the reset leaves date_range as it is.
clear_filters_keep_dates(ss, df) ==
    [k \in DOMAIN ss \cup
           {"selected_year", "date_range", "selected_state", "selected_category"} |->
        IF k = "selected_year" THEN AllYears
        ELSE IF k = "selected_state" THEN AllStates
        ELSE IF k = "selected_category" THEN AllCategories
        ELSE ss[k]]

clear_filters(ss, df) ==
    [k \in DOMAIN ss \cup
           {"selected_year", "date_range", "selected_state", "selected_category"} |->
        IF k = "selected_year" THEN AllYears
        ELSE IF k = "date_range" THEN <<min_date(df), max_date(df)>>
        ELSE IF k = "selected_state" THEN AllStates
        ELSE IF k = "selected_category" THEN AllCategories
        ELSE ss[k]]

date_range_disabled(ss) == ss.selected_year # AllYears

---------------------------------------------------------------------------
(* Apply Filters and Key Metrics                                           *)

\* Mutant: the category filter restarts from the date-filtered rows and so
\* forgets the state filter.
apply_filters_category_resets(df, ss) ==
    IF ss.selected_year = AllYears /\ Len(ss.date_range) # 2
    THEN [ok |-> FALSE, rows |-> <<>>]
    ELSE
    LET f1 == IF ss.selected_year # AllYears
              THEN SelectSeq(df, LAMBDA r : r.purchase_year = ss.selected_year)
              ELSE SelectSeq(df, LAMBDA r :
                       /\ date(r.order_purchase_timestamp[1]) >= ss.date_range[1]
                       /\ date(r.order_purchase_timestamp[1]) <= ss.date_range[2])
        f2 == IF ss.selected_state # AllStates
              THEN SelectSeq(f1, LAMBDA r : r.customer_state = ss.selected_state)
              ELSE f1
        f3 == IF ss.selected_category # AllCategories
              THEN SelectSeq(f1, LAMBDA r :
                       r.product_category_name_english = ss.selected_category)
              ELSE f2
    IN  [ok |-> TRUE, rows |-> f3]

\* Mutant: a complete date_range is applied even when a year is selected.
apply_filters_dates_always(df, ss) ==
    IF ss.selected_year = AllYears /\ Len(ss.date_range) # 2
    THEN [ok |-> FALSE, rows |-> <<>>]
    ELSE
    LET f0 == IF ss.selected_year # AllYears
              THEN SelectSeq(df, LAMBDA r : r.purchase_year = ss.selected_year)
              ELSE df
        f1 == IF Len(ss.date_range) = 2
              THEN SelectSeq(f0, LAMBDA r :
                       /\ date(r.order_purchase_timestamp[1]) >= ss.date_range[1]
                       /\ date(r.order_purchase_timestamp[1]) <= ss.date_range[2])
              ELSE f0
        f2 == IF ss.selected_state # AllStates
              THEN SelectSeq(f1, LAMBDA r : r.customer_state = ss.selected_state)
              ELSE f1
        f3 == IF ss.selected_category # AllCategories
              THEN SelectSeq(f2, LAMBDA r :
                       r.product_category_name_english = ss.selected_category)
              ELSE f2
    IN  [ok |-> TRUE, rows |-> f3]

\* ok is FALSE when the tuple unpacking of date_range raises ValueError.
apply_filters(df, ss) ==
    IF ss.selected_year = AllYears /\ Len(ss.date_range) # 2
    THEN [ok |-> FALSE, rows |-> <<>>]
    ELSE
    LET f1 == IF ss.selected_year # AllYears
              THEN SelectSeq(df, LAMBDA r : r.purchase_year = ss.selected_year)
              ELSE LET start_date == ss.date_range[1]
                       end_date == ss.date_range[2]
                   IN  SelectSeq(df, LAMBDA r :
                           /\ date(r.order_purchase_timestamp[1]) >= start_date
                           /\ date(r.order_purchase_timestamp[1]) <= end_date)
        f2 == IF ss.selected_state # AllStates
              THEN SelectSeq(f1, LAMBDA r : r.customer_state = ss.selected_state)
              ELSE f1
        f3 == IF ss.selected_category # AllCategories
              THEN SelectSeq(f2, LAMBDA r :
                       r.product_category_name_english = ss.selected_category)
              ELSE f2
    IN  [ok |-> TRUE, rows |-> f3]

RECURSIVE column_sum(_, _)
column_sum(rows, col) ==
    IF rows = <<>> THEN 0 ELSE Head(rows)[col] + column_sum(Tail(rows), col)

nunique(rows, col) == Cardinality({rows[i][col] : i \in 1..Len(rows)})

\* Mutant: total_orders counts rows instead of distinct order ids.
key_metrics_count_rows(rows) ==
    [ total_revenue |-> column_sum(rows, "payment_value"),
      total_orders |-> Len(rows),
      avg_review_score |-> <<column_sum(rows, "review_score"), Len(rows)>> ]

\* The mean is kept as the exact fraction <<sum, count>>.
key_metrics(rows) ==
    [ total_revenue |-> column_sum(rows, "payment_value"),
      total_orders |-> nunique(rows, "order_id"),
      avg_review_score |-> <<column_sum(rows, "review_score"), Len(rows)>> ]

---------------------------------------------------------------------------
(* One run of the script, top to bottom                                    *)

NoView ==
    [ status |-> "not_run", error |-> FALSE, widgets |-> FALSE,
      filtered |-> <<>>, kpis |-> <<>>, warning |-> FALSE, tabs |-> FALSE ]

\* Mutant: the KPIs and tabs are produced without the emptiness test.
render_without_empty_check(df, ss) ==
    LET init == initialize_session_state(ss, df)
    IN  IF ~init.ok
        THEN [session |-> init.session,
              view |-> [NoView EXCEPT !.status = "exception"]]
        ELSE
        LET f == apply_filters(df, init.session)
        IN  [session |-> init.session,
             view |->
                IF ~f.ok
                THEN [NoView EXCEPT !.status = "exception", !.widgets = TRUE]
                ELSE [NoView EXCEPT !.status = "rendered", !.widgets = TRUE,
                                    !.filtered = f.rows,
                                    !.kpis = <<key_metrics(f.rows)>>,
                                    !.tabs = TRUE]]

\* The rest of the script once load_data has returned df.
render(df, ss) ==
    LET init == initialize_session_state(ss, df)
    IN  IF ~init.ok
        THEN [session |-> init.session,
              view |-> [NoView EXCEPT !.status = "exception"]]
        ELSE
        LET f == apply_filters(df, init.session)
        IN  [session |-> init.session,
             view |->
                IF ~f.ok
                THEN [NoView EXCEPT !.status = "exception", !.widgets = TRUE]
                ELSE IF f.rows # <<>>
                THEN [NoView EXCEPT !.status = "rendered", !.widgets = TRUE,
                                    !.filtered = f.rows,
                                    !.kpis = <<key_metrics(f.rows)>>,
                                    !.tabs = TRUE]
                ELSE [NoView EXCEPT !.status = "no_rows", !.widgets = TRUE,
                                    !.filtered = f.rows,
                                    !.warning = TRUE]]

\* load_data is memoized: a successful result is reused by later runs; a
\* failed call caches nothing.
run_script(fs, rw, ch, ss) ==
    LET outcome == IF ch # <<>> THEN "ok" ELSE read_csv_all(fs)
    IN  IF outcome = "FileNotFoundError"
        THEN [cache |-> ch, session |-> ss,
              view |-> [NoView EXCEPT !.status = "load_error", !.error = TRUE]]
        ELSE IF outcome = "ParserError"
        THEN [cache |-> ch, session |-> ss,
              view |-> [NoView EXCEPT !.status = "exception"]]
        ELSE LET df == IF ch # <<>> THEN ch[1] ELSE load_data(rw)
                 r == render(df, ss)
             IN  [cache |-> <<df>>, session |-> r.session, view |-> r.view]

Run(ss, ev) ==
    LET r == run_script(files, raw, cache, ss)
    IN  /\ cache' = r.cache
        /\ session' = r.session
        /\ view' = r.view
        /\ event' = ev
        /\ UNCHANGED <<files, raw>>

---------------------------------------------------------------------------
(* Input data                                                              *)

\* Two orders, each with two items (of different products, sellers and
\* categories): o1 has one review and two payments, o2 has two reviews and one
\* payment.  The geolocation table only feeds the map and is not represented.
BaseRaw(p1, d1, e1, p2, d2, cu1, cu2) ==
    [ orders |-> <<
        [ order_id |-> "o1", customer_id |-> cu1,
          order_purchase_timestamp |-> p1,
          order_approved_at |-> Cell(0),
          order_delivered_carrier_date |-> Cell(0),
          order_delivered_customer_date |-> d1,
          order_estimated_delivery_date |-> e1 ],
        [ order_id |-> "o2", customer_id |-> cu2,
          order_purchase_timestamp |-> p2,
          order_approved_at |-> Cell(MaxTs),
          order_delivered_carrier_date |-> Cell(MaxTs),
          order_delivered_customer_date |-> d2,
          order_estimated_delivery_date |-> Cell(MaxTs) ] >>,
      customers |-> <<
        [ customer_id |-> "c1", customer_state |-> "SP" ],
        [ customer_id |-> "c2", customer_state |-> "RJ" ] >>,
      order_reviews |-> <<
        [ review_id |-> "r1", order_id |-> "o1", review_score |-> 5 ],
        [ review_id |-> "r2", order_id |-> "o2", review_score |-> 2 ],
        [ review_id |-> "r3", order_id |-> "o2", review_score |-> 4 ] >>,
      order_payments |-> <<
        [ order_id |-> "o1", payment_sequential |-> 1, payment_value |-> 10 ],
        [ order_id |-> "o1", payment_sequential |-> 2, payment_value |-> 5 ],
        [ order_id |-> "o2", payment_sequential |-> 1, payment_value |-> 7 ] >>,
      order_items |-> <<
        [ order_id |-> "o1", order_item_id |-> 1, product_id |-> "p1",
          seller_id |-> "s1", shipping_limit_date |-> Cell(0) ],
        [ order_id |-> "o1", order_item_id |-> 2, product_id |-> "p2",
          seller_id |-> "s2", shipping_limit_date |-> Cell(0) ],
        [ order_id |-> "o2", order_item_id |-> 1, product_id |-> "p1",
          seller_id |-> "s1", shipping_limit_date |-> Cell(MaxTs) ],
        [ order_id |-> "o2", order_item_id |-> 2, product_id |-> "p2",
          seller_id |-> "s2", shipping_limit_date |-> Cell(MaxTs) ] >>,
      products |-> <<
        [ product_id |-> "p1", product_category_name |-> "brinquedos" ],
        [ product_id |-> "p2", product_category_name |-> "livros" ] >>,
      sellers |-> <<
        [ seller_id |-> "s1", seller_state |-> "SP" ],
        [ seller_id |-> "s2", seller_state |-> "MG" ] >>,
      category_translation |-> <<
        [ product_category_name |-> "brinquedos",
          product_category_name_english |-> "toys" ],
        [ product_category_name |-> "livros",
          product_category_name_english |-> "books" ] >> ]

TableNames ==
    DOMAIN BaseRaw(EmptyCell, EmptyCell, EmptyCell, EmptyCell, EmptyCell, "c1", "c2")

RawCells == {GarbageCell, EmptyCell} \cup {Cell(t) : t \in 0..MaxTs}

\* A perturbation removes one row of one table or makes one cell of the
\* approved / carrier / shipping-limit columns unparseable.
Perturbations ==
    {<<"drop", t, i>> : t \in TableNames, i \in 1..4}
    \cup {<<"corrupt", c, 1>> : c \in {"order_approved_at",
                                       "order_delivered_carrier_date",
                                       "shipping_limit_date"}}

RECURSIVE SubsetsUpTo(_, _)
SubsetsUpTo(S, k) ==
    IF k = 0 THEN {{}}
    ELSE LET P == SubsetsUpTo(S, k - 1)
         IN  P \cup {s \cup {x} : s \in P, x \in S}

RECURSIVE KeepRows(_, _, _)
KeepRows(rows, i, gone) ==
    IF i > Len(rows) THEN <<>>
    ELSE (IF i \in gone THEN <<>> ELSE <<rows[i]>>) \o KeepRows(rows, i + 1, gone)

Corrupt(rows, P) ==
    [i \in 1..Len(rows) |->
        [c \in DOMAIN rows[i] |->
            IF <<"corrupt", c, i>> \in P THEN GarbageCell ELSE rows[i][c]]]

Perturb(base, P) ==
    [t \in DOMAIN base |->
        KeepRows(Corrupt(base[t], P), 1,
                 {i \in 1..Len(base[t]) : <<"drop", t, i>> \in P})]

EdgeCells == {GarbageCell, EmptyCell, Cell(MaxTs \div 2)}

\* Inputs of the pipeline: o1's purchase and estimated timestamps unparseable,
\* empty or valid, every raw value of its delivered timestamp (before, at and
\* after the estimate), under at most MaxPerturb perturbations; o2 delivered
\* or not.
PipelineInputs ==
    {Perturb(BaseRaw(p1, d1, e1, Cell(MaxTs), d2, "c1", "c2"), P) :
        p1 \in EdgeCells, d1 \in RawCells, e1 \in EdgeCells,
        d2 \in {EmptyCell, Cell(MaxTs)},
        P \in SubsetsUpTo(Perturbations, MaxPerturb)}

\* Inputs of the dashboard: complete data, every purchase instant of both
\* orders, the two customers the same or different.
DashboardInputs ==
    {BaseRaw(Cell(t1), Cell(MaxTs), Cell(MaxTs), Cell(t2), Cell(MaxTs), cu1, "c2") :
        t1 \in 0..MaxTs, t2 \in 0..MaxTs, cu1 \in {"c1", "c2"}}

AllOk == [f \in FileNames |-> "ok"]

FileStates ==
    {fs \in [FileNames -> {"ok", "missing", "malformed"}] :
        Cardinality({f \in FileNames : fs[f] # "ok"}) <= MaxFaulty}

---------------------------------------------------------------------------
(* Initial states                                                          *)

InitWith(inputs) ==
    /\ \/ files = AllOk /\ raw \in inputs
       \/ files \in FileStates \ {AllOk}
          /\ raw = BaseRaw(Cell(0), Cell(0), Cell(0), Cell(MaxTs), Cell(MaxTs), "c1", "c2")
    /\ cache = <<>>
    /\ session = <<>>
    /\ view = NoView
    /\ event = "none"

Init == InitWith(DashboardInputs)

InitLoad == InitWith(PipelineInputs)

---------------------------------------------------------------------------
(* Actions: the first run and one rerun per user interaction               *)

df == cache[1]

FirstRun ==
    /\ view.status = "not_run"
    /\ Run(session, "load")

Rerun ==
    /\ view.status # "not_run"
    /\ Run(session, "rerun")

SelectYear(y) ==
    /\ view.widgets
    /\ y \in {AllYears} \cup all_years(df)
    /\ y # session.selected_year
    /\ Run([session EXCEPT !.selected_year = y], "selected_year")

\* First click in the range picker: the widget holds a one-element tuple
\* until the second date is picked.
PickStartDate(d) ==
    /\ view.widgets
    /\ ~date_range_disabled(session)
    /\ d \in min_date(df)..max_date(df)
    /\ Run([session EXCEPT !.date_range = <<d>>], "date_range_start")

PickEndDate(d) ==
    /\ view.widgets
    /\ ~date_range_disabled(session)
    /\ Len(session.date_range) = 1
    /\ d \in session.date_range[1]..max_date(df)
    /\ Run([session EXCEPT !.date_range = <<session.date_range[1], d>>],
           "date_range_end")

SelectState(s) ==
    /\ view.widgets
    /\ s \in {AllStates} \cup all_states(df)
    /\ s # session.selected_state
    /\ Run([session EXCEPT !.selected_state = s], "selected_state")

SelectCategory(c) ==
    /\ view.widgets
    /\ c \in {AllCategories} \cup all_categories(df)
    /\ c # session.selected_category
    /\ Run([session EXCEPT !.selected_category = c], "selected_category")

ClearFilters ==
    /\ view.widgets
    /\ Run(clear_filters(session, df), "clear_filters")

Next ==
    \/ FirstRun
    \/ Rerun
    \/ \E y \in {AllYears} \cup {ToString(2016 + n) : n \in 0..MaxTs} : SelectYear(y)
    \/ \E d \in 0..MaxTs : PickStartDate(d)
    \/ \E d \in 0..MaxTs : PickEndDate(d)
    \/ \E s \in {AllStates, "SP", "RJ"} : SelectState(s)
    \/ \E c \in {AllCategories, "toys", "books"} : SelectCategory(c)
    \/ ClearFilters

Spec == Init /\ [][Next]_vars

NextLoad == FirstRun

SpecLoad == InitLoad /\ [][NextLoad]_vars

---------------------------------------------------------------------------
(* Properties                                                              *)

Loaded == cache # <<>>

Filtered == view.status \in {"rendered", "no_rows"}

\* C1: whenever any of the nine files cannot be found or cannot be parsed, the
\* run shows the blocking message and halts before session-state
\* initialization, filtering, KPIs and rendering.
C1_LoadFailureBlocks ==
    (files # AllOk /\ view.status # "not_run") =>
        /\ view.status = "load_error"
        /\ view.error
        /\ session = <<>>
        /\ ~view.widgets
        /\ view.kpis = <<>>
        /\ ~view.tabs

InYearOrRange(r, ss) ==
    IF ss.selected_year # AllYears
    THEN r.purchase_year = ss.selected_year
    ELSE /\ ss.date_range[1] <= date(r.order_purchase_timestamp[1])
         /\ date(r.order_purchase_timestamp[1]) <= ss.date_range[2]

InState(r, ss) ==
    ss.selected_state = AllStates \/ r.customer_state = ss.selected_state

InCategory(r, ss) ==
    ss.selected_category = AllCategories
    \/ r.product_category_name_english = ss.selected_category

\* C2: the filtered table is exactly the rows of the enriched table that
\* satisfy the conjunction of the year-or-date-range, state and category
\* predicates; none omitted, none extra.
C2_FilterIsConjunction ==
    Filtered =>
        view.filtered =
            SelectSeq(df, LAMBDA r :
                InYearOrRange(r, session) /\ InState(r, session) /\ InCategory(r, session))

\* A state S and a category C are selected, and the rows in the year or date
\* range cover all four combinations of matching S and matching C.
C2_Witness ==
    /\ view.status = "rendered"
    /\ session.selected_state # AllStates
    /\ session.selected_category # AllCategories
    /\ \A inS \in BOOLEAN, inC \in BOOLEAN :
          \E i \in 1..Len(df) :
             /\ InYearOrRange(df[i], session)
             /\ (df[i].customer_state = session.selected_state) = inS
             /\ (df[i].product_category_name_english = session.selected_category) = inC

\* Every partial or complete range over the modelled days and one day beyond.
DateRanges ==
    LET days == (0 - 1)..(date(MaxTs) + 1)
    IN  {<<a>> : a \in days} \cup {<<a, b>> : a \in days, b \in days}

\* C3: with a specific year selected the filtered table is the same for every
\* date_range, complete or partial, inside or outside that year: all rows of
\* the year that pass the state and category predicates.
C3_YearIgnoresDateRange ==
    (Filtered /\ session.selected_year # AllYears) =>
        /\ view.filtered =
              SelectSeq(df, LAMBDA r :
                  /\ r.purchase_year = session.selected_year
                  /\ InState(r, session) /\ InCategory(r, session))
        /\ \A dr \in DateRanges :
              apply_filters(df, [session EXCEPT !.date_range = dr])
                  = [ok |-> TRUE, rows |-> view.filtered]

\* A year is selected, rows are shown, and none of them lies in the stored
\* date range.
C3_Witness ==
    /\ view.status = "rendered"
    /\ session.selected_year # AllYears
    /\ Len(session.date_range) = 2
    /\ \A i \in 1..Len(view.filtered) :
          \/ date(view.filtered[i].order_purchase_timestamp[1]) < session.date_range[1]
          \/ date(view.filtered[i].order_purchase_timestamp[1]) > session.date_range[2]

EmptyResultHandled ==
    (Loaded /\ view.widgets /\ apply_filters(df, session).ok) =>
        LET rows == apply_filters(df, session).rows
        IN  /\ view.filtered = rows
            /\ IF rows = <<>>
               THEN /\ view.status = "no_rows"
                    /\ view.warning
                    /\ view.kpis = <<>>
                    /\ ~view.tabs
               ELSE /\ view.status = "rendered"
                    /\ ~view.warning
                    /\ view.kpis # <<>>
                    /\ view.tabs

\* C4: a run whose filtered table is empty computes no KPI, shows the warning
\* and renders no tab; the sidebar stays available, and a later run whose
\* selection matches rows shows KPIs and tabs again.
C4_EmptyResultRecoverable ==
    [][ /\ EmptyResultHandled'
        /\ view.status = "no_rows" =>
              /\ view.widgets
              /\ (view'.filtered # <<>> => view'.status = "rendered" /\ view'.tabs)
      ]_vars

\* The warning is shown for a selection that matches no row.
C4_Witness ==
    /\ view.status = "no_rows"
    /\ view.warning
    /\ apply_filters(df, session).rows = <<>>

\* C5: after the reset all four fields hold their defaults, the selection
\* established at first load.
C5_ResetRestoresDefaults ==
    event = "clear_filters" =>
        /\ session = initialize_session_state(<<>>, df).session
        /\ session.selected_year = AllYears
        /\ session.date_range = <<min_date(df), max_date(df)>>
        /\ session.selected_state = AllStates
        /\ session.selected_category = AllCategories

\* The reset has run on a table whose purchase dates span several days.
C5_Witness ==
    /\ event = "clear_filters"
    /\ view.status = "rendered"
    /\ min_date(df) < max_date(df)

\* C6: delivery_status is a total three-way classification of delivery_delta,
\* which is null exactly when the delivered or the estimated date is.
C6_DeliveryStatus ==
    Loaded =>
        \A i \in 1..Len(df) :
            LET r == df[i]
            IN  /\ r.delivery_status \in {"Undefined", "On Time / Early", "Late"}
                /\ isna(r.delivery_delta) <=>
                       (isna(r.order_delivered_customer_date)
                        \/ isna(r.order_estimated_delivery_date))
                /\ r.delivery_status = "Undefined" <=> isna(r.delivery_delta)
                /\ r.delivery_status = "On Time / Early" <=>
                       (~isna(r.delivery_delta) /\ r.delivery_delta[1] >= 0)
                /\ r.delivery_status = "Late" <=>
                       (~isna(r.delivery_delta) /\ r.delivery_delta[1] < 0)

\* The table holds a late row, less than a day late, and an on-time row
\* delivered exactly on the estimated instant.
C6_Witness ==
    /\ Loaded
    /\ \E i \in 1..Len(df) :
          /\ df[i].delivery_status = "Late"
          /\ df[i].order_estimated_delivery_date[1] + 1
                 = df[i].order_delivered_customer_date[1]
    /\ \E i \in 1..Len(df) :
          /\ df[i].delivery_status = "On Time / Early"
          /\ df[i].delivery_delta = <<0>>

\* C7: every enriched row has a purchase timestamp; the rows dropped are
\* exactly the joined rows whose purchase timestamp does not parse, whatever
\* the other timestamp columns hold.
C7_PurchaseTimestampNonNull ==
    Loaded =>
        LET merged == merge_all(raw)
        IN  /\ \A i \in 1..Len(df) : ~isna(df[i].order_purchase_timestamp)
            /\ Len(df) = Cardinality({i \in 1..Len(merged) :
                            merged[i].order_purchase_timestamp.kind = "datetime"})

\* Rows were dropped, and a kept row has a NaT in another timestamp column.
C7_Witness ==
    /\ Loaded
    /\ Len(df) < Len(merge_all(raw))
    /\ \E i \in 1..Len(df) : isna(df[i].order_delivered_customer_date)

JoinOrder ==
    << "orders", "customers", "order_reviews", "order_payments", "order_items",
       "products", "sellers", "category_translation" >>

\* All choices of one row per table in which every join key agrees.
Combos(r) ==
    {c \in (1..Len(r.orders)) \X (1..Len(r.customers)) \X (1..Len(r.order_reviews))
           \X (1..Len(r.order_payments)) \X (1..Len(r.order_items))
           \X (1..Len(r.products)) \X (1..Len(r.sellers))
           \X (1..Len(r.category_translation)) :
        /\ r.customers[c[2]].customer_id = r.orders[c[1]].customer_id
        /\ r.order_reviews[c[3]].order_id = r.orders[c[1]].order_id
        /\ r.order_payments[c[4]].order_id = r.orders[c[1]].order_id
        /\ r.order_items[c[5]].order_id = r.orders[c[1]].order_id
        /\ r.products[c[6]].product_id = r.order_items[c[5]].product_id
        /\ r.sellers[c[7]].seller_id = r.order_items[c[5]].seller_id
        /\ r.category_translation[c[8]].product_category_name
               = r.products[c[6]].product_category_name}

IsTimestampCol(col) == \E i \in 1..Len(timestamp_cols) : timestamp_cols[i] = col

\* The enriched row carries the columns of the eight chosen source rows.
IsRowOf(row, r, c) ==
    \A j \in 1..Len(JoinOrder) :
        LET src == r[JoinOrder[j]][c[j]]
        IN  \A col \in DOMAIN src :
                IF IsTimestampCol(col)
                THEN row[col] = to_datetime(src[col])
                ELSE row[col] = src[col]

OneRowPerCombo(C) ==
    /\ Len(df) = Cardinality(C)
    /\ \A c \in C : Cardinality({k \in 1..Len(df) : IsRowOf(df[k], raw, c)}) = 1

\* C8 as stated: the enriched table holds exactly one row per combination of
\* an order with a matching customer, review, payment, item, product, seller
\* and category translation.
C8_OneRowPerCombination ==
    Loaded => OneRowPerCombo(Combos(raw))

\* C8 amended: exactly one row per such combination of an order whose
\* purchase timestamp parses.
C8_OneRowPerParsedCombination ==
    Loaded =>
        OneRowPerCombo({c \in Combos(raw) :
            raw.orders[c[1]].order_purchase_timestamp.kind = "datetime"})

\* One order fans out into four rows while the other order, lacking a match
\* in some table, has none.
C8_Witness ==
    /\ Loaded
    /\ Len(raw.orders) = 2
    /\ \A o \in 1..2 : raw.orders[o].order_purchase_timestamp.kind = "datetime"
    /\ \E o \in 1..2 :
          /\ Cardinality({k \in 1..Len(df) : df[k].order_id = raw.orders[o].order_id}) = 4
          /\ \A k \in 1..Len(df) : df[k].order_id = raw.orders[o].order_id

PaymentsOf(rows) ==
    {<<rows[i].order_id, rows[i].payment_sequential, rows[i].payment_value>> :
        i \in 1..Len(rows)}

RowsOfPayment(rows, pay) ==
    {i \in 1..Len(rows) :
        rows[i].order_id = pay[1] /\ rows[i].payment_sequential = pay[2]}

RECURSIVE RevenueByPayment(_, _)
RevenueByPayment(pays, rows) ==
    IF pays = {} THEN 0
    ELSE LET pay == CHOOSE x \in pays : TRUE
         IN  pay[3] * Cardinality(RowsOfPayment(rows, pay))
                 + RevenueByPayment(pays \ {pay}, rows)

\* C9: total_orders counts each order once however many rows it has;
\* total_revenue adds each payment's value once per row it appears in.
C9_OrdersDistinctRevenuePerRow ==
    view.status = "rendered" =>
        LET rows == view.filtered
            kpi == view.kpis[1]
        IN  /\ kpi.total_orders =
                  Cardinality({o \in {"o1", "o2"} :
                      \E i \in 1..Len(rows) : rows[i].order_id = o})
            /\ kpi.total_revenue = RevenueByPayment(PaymentsOf(rows), rows)

\* A displayed order fans out: one of its payments appears in several rows and
\* is added that many times.
C9_Witness ==
    /\ view.status = "rendered"
    /\ view.kpis[1].total_orders < Len(view.filtered)
    /\ \E pay \in PaymentsOf(view.filtered) :
          /\ Cardinality(RowsOfPayment(view.filtered, pay)) >= 2
          /\ view.kpis[1].total_revenue >=
                 pay[3] * Cardinality(RowsOfPayment(view.filtered, pay))

\* C10: the stored date_range is always a pair within the purchase dates and
\* no run ends in an unhandled error.
C10_DateRangeIsPair ==
    (Loaded /\ "date_range" \in DOMAIN session) =>
        /\ Len(session.date_range) = 2
        /\ min_date(df) <= session.date_range[1]
        /\ session.date_range[1] <= session.date_range[2]
        /\ session.date_range[2] <= max_date(df)
        /\ view.status # "exception"

====
